---- MODULE Spec2Model ----
(***************************************************************************)
(* CPU capability detection (cpu_specs): the decode/dispatch engine that   *)
(* fills the two global singletons cpu_specs and cpu_identity from CPUID   *)
(* leaf queries.  Registers are s32 words kept as signed integers in       *)
(* [-2^31, 2^31 - 1]; u32 comparisons are made on those bit patterns.      *)
(***************************************************************************)
EXTENDS Integers, Naturals, Sequences, FiniteSets, TLC

VARIABLES isa, hw, eflags, cpu_specs, below, cpu_identity, last, streak, calls, changes,
          threads

vars == <<isa, hw, eflags, cpu_specs, below, cpu_identity, last, streak, calls, changes,
          threads>>

(***************************************************************************)
(* Bounds of the model.                                                    *)
(***************************************************************************)
MaxCalls == 2
MaxHwChanges == 1

(***************************************************************************)
(* 32-bit two's complement arithmetic.                                     *)
(***************************************************************************)
MaxS32 == 2147483647
MinS32 == (-MaxS32) - 1
X80000000 == MinS32

Bit(x, n) == IF n = 31 THEN (IF x < 0 THEN 1 ELSE 0) ELSE (x \div (2^n)) % 2

\* the word made of two unsigned 16-bit halves
FromHalves(h, l) == IF h >= 32768 THEN ((h - 65536) * 65536) + l ELSE (h * 65536) + l

\* the unsigned 16-bit halves of a word
Lo(x) == x % 65536
Hi(x) == (x \div 65536) % 65536

\* the bitwise operations on two 4-bit digits a and b, tabulated at 16 * a + b
BitOp(op, p, q) ==
  CASE op = "and" -> p * q
    [] op = "or"  -> IF p + q > 0 THEN 1 ELSE 0
    [] OTHER      -> (p + q) % 2

NibbleOp(op) ==
  [k \in 0..255 |->
     LET a == k \div 16
         b == k % 16
     IN  BitOp(op, Bit(a, 0), Bit(b, 0)) + (2 * BitOp(op, Bit(a, 1), Bit(b, 1)))
           + (4 * BitOp(op, Bit(a, 2), Bit(b, 2))) + (8 * BitOp(op, Bit(a, 3), Bit(b, 3)))]

AndTable == NibbleOp("and")
OrTable  == NibbleOp("or")
XorTable == NibbleOp("xor")

Op16(T, a, b) ==
  T[(16 * (a % 16)) + (b % 16)]
    + (16 * T[(16 * ((a \div 16) % 16)) + ((b \div 16) % 16)])
    + (256 * T[(16 * ((a \div 256) % 16)) + ((b \div 256) % 16)])
    + (4096 * T[(16 * (a \div 4096)) + (b \div 4096)])

Op32(T, x, y) == FromHalves(Op16(T, Hi(x), Hi(y)), Op16(T, Lo(x), Lo(y)))

\* the masks of one bit and of the k low bits, on which the operations reduce
\* to arithmetic
Pow2     == {2^k : k \in 0..30}
LowMasks == {(2^k) - 1 : k \in 1..30}

\* x & y, x | y, x ^ y on s32
And(x, y) ==
  IF x = 0 \/ y = 0 THEN 0
  ELSE IF y \in LowMasks THEN x % (y + 1)
  ELSE IF y \in Pow2 THEN ((x \div y) % 2) * y
  ELSE Op32(AndTable, x, y)

Or(x, y) ==
  IF x = 0 THEN y
  ELSE IF y = 0 THEN x
  ELSE IF y \in Pow2 THEN (IF (x \div y) % 2 = 1 THEN x ELSE x + y)
  ELSE Op32(OrTable, x, y)

Xor(x, y) ==
  IF x = 0 THEN y
  ELSE IF y = 0 THEN x
  ELSE IF x = -1 THEN (-1) - y
  ELSE IF y = -1 THEN (-1) - x
  ELSE IF y \in Pow2 THEN (IF (x \div y) % 2 = 1 THEN x - y ELSE x + y)
  ELSE Op32(XorTable, x, y)

\* -x on s32 (the negation of INT_MIN wraps to itself)
Neg(x) == IF x = MinS32 THEN MinS32 ELSE -x

\* x >> n on s32: arithmetic shift (the sign bit is replicated)
Shr(x, n) == IF n >= 31 THEN (IF x < 0 THEN -1 ELSE 0) ELSE x \div (2^n)

\* x + y truncated to 32 bits
AddWrap(x, y) ==
  LET lo == Lo(x) + Lo(y)
      hi == Hi(x) + Hi(y) + (lo \div 65536)
  IN  FromHalves(hi % 65536, lo % 65536)

\* the low 16 bits of u * v, for u, v in 0..65535
MulLow16(u, v) == (((u % 256) * v) + ((((u \div 256) * v) % 256) * 256)) % 65536

\* x * y truncated to 32 bits (schoolbook product of the 16-bit halves)
MulWrap(x, y) ==
  LET xl == Lo(x)
      xh == Hi(x)
      yl == Lo(y)
      yh == Hi(y)
      p  == (xl \div 256) * yl
      low  == ((xl % 256) * yl) + ((p % 256) * 256)
      high == (p \div 256) + (low \div 65536) + MulLow16(xh, yl) + MulLow16(xl, yh)
  IN  FromHalves(high % 65536, low % 65536)

\* x << n truncated to 32 bits
Shl(x, n) == IF n >= 32 THEN 0 ELSE MulWrap(x, IF n = 31 THEN MinS32 ELSE 2^n)

\* x / y of C (truncation toward zero), y # 0
CDiv(x, y) ==
  LET ax == IF x < 0 THEN -x ELSE x
      ay == IF y < 0 THEN -y ELSE y
      q  == ax \div ay
  IN  IF (x < 0) = (y < 0) THEN q ELSE -q

\* a >= b on the u32 reading of two words
UGe(a, b) == IF (a < 0) = (b < 0) THEN a >= b ELSE a < 0

\* the four bytes of a word in memory order (little endian), as schar8 values
S8(b) == IF b >= 128 THEN b - 256 ELSE b
BytesOf(w) == << S8(w % 256), S8(Shr(w, 8) % 256), S8(Shr(w, 16) % 256), S8(Shr(w, 24) % 256) >>

\* the word read back from four schar8 bytes in memory order
WordOf(b) == FromHalves((b[4] % 256) * 256 + (b[3] % 256), (b[2] % 256) * 256 + (b[1] % 256))

(***************************************************************************)
(* Constants of cpu_specs.h.                                               *)
(***************************************************************************)
EAX == 0
EBX == 1
ECX == 2
EDX == 3

CPU_MANUFACTURER_AMD   == 1145913699
CPU_MANUFACTURER_INTEL == 1818588270

L1 == 0
L2 == 1
L3 == 2
CACHE_LEVEL_COUNT == 3

SSE1    == 2^0
SSE2    == 2^1
SSE3    == 2^2
SSSE3   == 2^3
SSE4_1  == 2^4
SSE4_2  == 2^5
AVX1    == 2^6
AVX2    == 2^7
FMA3    == 2^8
AVX512F == 2^9
POPCNT  == 2^10
LZCNT   == 2^11
TZCNT   == 2^12
BMI1    == 2^13
BMI2    == 2^14
TBM     == 2^15
RDTSCP  == 2^16
F16C    == 2^17

KiB(x) == MulWrap(x, 1024)

(***************************************************************************)
(* The hardware: the answers of the CPUID instruction and the behaviour of *)
(* the ID bit of the flag register.  A machine is described by its vendor  *)
(* signature, its highest standard and extended leaves (gen) and the       *)
(* register contents of the other leaves (prof): "A" a regular part, "B"   *)
(* irregular register contents, "C" all-zero answers.                      *)
(***************************************************************************)
MaxStd(g) == CASE g \in {1, 2} -> 1
               [] g \in {3, 4, 7} -> 7
               [] g = 5        -> 11
               [] OTHER        -> 31

MaxExt(g) == CASE g = 1 -> 0
               [] g = 2 -> X80000000 + 1
               [] g = 3 -> X80000000 + 6
               [] g = 4 -> X80000000 + 8
               [] g \in {5, 7} -> X80000000 + 29
               [] OTHER -> X80000000 + 8

\* leaf 0: EBX, ECX, EDX spell the vendor ("AuthenticAMD", "GenuineIntel", "CentaurHauls");
\* a virtual machine may be given any twelve characters, here "CentaurHcAMD"
Signature(v) == CASE v = "AMD"   -> [b |-> 1752462657, c |-> 1145913699, d |-> 1769238117]
                  [] v = "Intel" -> [b |-> 1970169159, c |-> 1818588270, d |-> 1231384169]
                  [] v = "Clone" -> [b |-> 1953391939, c |-> 1145913699, d |-> 1215460705]
                  [] OTHER       -> [b |-> 1953391939, c |-> 1936487777, d |-> 1215460705]

Regs(a, b, c, d) == (EAX :> a) @@ (EBX :> b) @@ (ECX :> c) @@ (EDX :> d)

Zeros == Regs(0, 0, 0, 0)

\* leaf 1 EAX: stepping | model << 4 | family << 8 | ext model << 16 | ext family << 20
Fms(step, model, family, xmodel, xfamily) ==
  step + (model * 16) + (family * 256) + (xmodel * 65536) + (xfamily * 1048576)

Leaf1Eax(m) ==
  CASE m.prof = "A" /\ m.vendor = "Intel" -> Fms(10, 14, 6, 9, 0)
    [] m.prof = "A" /\ m.gen <= 2         -> Fms(2, 4, 15, 3, 2)
    [] m.prof = "A"                       -> Fms(1, 1, 15, 7, 8)
    [] m.prof = "B" /\ m.gen <= 3         -> Fms(9, 10, 6, 3, 0)
    [] m.prof = "B"                       -> Fms(3, 13, 15, 0, 255)
    [] m.gen <= 3                         -> Fms(0, 0, 0, 0, 0)
    [] OTHER                              -> Fms(2, 6, 5, 5, 1)

\* a deterministic cache descriptor of leaf 4 / leaf 0x8000001D
CacheEax(type, level, sharing) == type + (level * 32) + (sharing * 16384)
CacheEbx(line, parts, ways)    == Or(line + (parts * 4096), Shl(ways, 22))

Descriptors(m) ==
  CASE m.prof = "A" ->
         << Regs(CacheEax(1, 1, 1),  CacheEbx(63, 0, 7),  63,   0),    \* L1 data, 32 KiB
            Regs(CacheEax(2, 1, 1),  CacheEbx(63, 0, 7),  63,   0),    \* L1 instruction
            Regs(CacheEax(3, 2, 1),  CacheEbx(63, 0, 3),  1023, 0),    \* L2 unified, 256 KiB
            Regs(CacheEax(3, 3, 15), CacheEbx(63, 0, 15), 8191, 0) >>  \* L3 unified, 8 MiB
    [] m.prof = "B" ->
         << Regs(CacheEax(1, 0, 1),    CacheEbx(63, 0, 1023), 63, 0),    \* level field 0
            Regs(CacheEax(3, 2, 4095), CacheEbx(31, 1, 3),  1023, 0) >>  \* shared by 4096
    [] OTHER -> << >>

Topology(m, leaf, sub) ==
  CASE m.prof = "A" -> IF sub = 0 THEN 2 ELSE (IF leaf = 31 THEN 16 ELSE 8)
    [] m.prof = "B" -> IF leaf = 31 THEN (IF sub = 0 THEN 1 ELSE 5)
                       ELSE (IF sub = 0 THEN 3 + 458752 ELSE 7 + 65536)
    [] OTHER        -> 0

\* the 16 bytes of one processor name leaf
NameRegs(m, k) ==
  CASE m.prof = "A" /\ k = 2 -> Regs(541347137, 1702525266, 540352622, 808465715)
    [] m.prof = "A" /\ k = 3 -> Regs(1769414741, 1377855604, 1868915809, 538976366)
    [] m.prof = "A" /\ k = 4 -> Regs(538976288, 538976288, 538976288, 32)
    [] m.prof = "B" /\ k = 2 -> Regs(541149526, 1869504846, -16777216 + 65, 0)
    [] OTHER                 -> Zeros

\* the registers machine m returns for (leaf, sub)
Registers(m, leaf, sub) ==
  LET p == m.prof
      sig == Signature(m.vendor)
  IN
  CASE leaf = 0 -> Regs(MaxStd(m.gen), sig.b, sig.c, sig.d)
    [] leaf = 1 ->
         CASE p = "A" -> Regs(Leaf1Eax(m), 8 * 65536,
                              2^0 + 2^9 + 2^12 + 2^19 + 2^20 + 2^23 + 2^28 + 2^29,
                              2^4 + 2^25 + 2^26 + 2^28)
           [] p = "B" -> Regs(Leaf1Eax(m), (1 * 65536) + 2048,
                              Or(2^0 + 2^1 + 2^19 + 2^28, MinS32),
                              2^0 + 2^25 + 2^28)
           [] OTHER   -> Regs(Leaf1Eax(m), 0, 0, 0)
    [] leaf \in {4, X80000000 + 29} ->
         IF sub + 1 \in DOMAIN Descriptors(m) THEN Descriptors(m)[sub + 1] ELSE Zeros
    [] leaf = 7 ->
         CASE p = "A" -> Regs(0, 2^3 + 2^5 + 2^8 + 2^16, 0, 0)
           [] p = "B" -> Regs(0, 2^5 + 2^16 + 2^29, 0, 0)
           [] OTHER   -> Zeros
    [] leaf \in {11, 31} -> Regs(0, Topology(m, leaf, sub), sub * 256, 0)
    [] leaf = 13 ->
         CASE p = "A" /\ sub = 5 -> Regs(64, 832, 0, 0)
           [] p = "B" /\ sub = 5 -> Regs(64, 0, 0, 0)
           [] OTHER              -> Zeros
    [] leaf = X80000000 -> Regs(MaxExt(m.gen), sig.b, sig.c, sig.d)
    [] leaf = X80000000 + 1 ->
         CASE p = "A" -> Regs(Leaf1Eax(m), 0, 2^1 + 2^5 + 2^21 + 2^22, 0)
           [] p = "B" -> Regs(Leaf1Eax(m), 0, 2^22, 0)
           [] OTHER   -> Zeros
    [] leaf \in {X80000000 + 2, X80000000 + 3, X80000000 + 4} ->
         NameRegs(m, leaf - X80000000)
    [] leaf = X80000000 + 5 ->
         CASE p = "A" -> Regs(0, 0, 64 + (32 * 16777216), 0)
           [] p = "B" -> Regs(0, 0, Or(64, Shl(255, 24)), 0)
           [] OTHER   -> Zeros
    [] leaf = X80000000 + 6 ->
         CASE p = "A" -> Regs(0, 0, 512 * 65536, 16 * 262144)
           [] p = "B" -> Regs(0, 0, Shl(65535, 16), Or(MinS32, 262144))
           [] OTHER   -> Zeros
    [] leaf = X80000000 + 8 ->
         CASE p = "A" -> Regs(0, 0, 7, 0)
           [] p = "B" -> Regs(0, 0, 256 + 2, 0)
           [] OTHER   -> Zeros
    [] OTHER -> Zeros

\* the leaves and subleaves the program can ask for
Leaves == {0, 1, 4, 7, 11, 13, 31} \cup {X80000000 + k : k \in {0, 1, 2, 3, 4, 5, 6, 8, 29}}
Subleaves == 0..5

\* the machines considered: one without the CPUID instruction, and parts of
\* each vendor that take every path of the vendor pipelines
Parts ==
  { <<"Other", 1, "A">>, <<"Other", 1, "B">>, <<"Other", 1, "C">>,
    <<"AMD", 1, "A">>, <<"AMD", 2, "A">>, <<"AMD", 2, "B">>, <<"AMD", 3, "A">>,
    <<"AMD", 3, "B">>, <<"AMD", 4, "A">>, <<"AMD", 5, "A">>, <<"AMD", 5, "B">>,
    <<"AMD", 5, "C">>,
    <<"Intel", 1, "A">>, <<"Intel", 3, "A">>, <<"Intel", 5, "A">>,
    <<"Intel", 5, "C">>, <<"Intel", 6, "A">>, <<"Intel", 6, "B">>,
    <<"Clone", 5, "A">>, <<"AMD", 7, "C">>, <<"AMD", 3, "C">> }

Designs ==
  {[avail |-> TRUE, vendor |-> p[1], gen |-> p[2], prof |-> p[3]] : p \in Parts}
    \cup {[avail |-> FALSE, vendor |-> "Other", gen |-> 1, prof |-> "C"]}

\* a machine: its design and the registers it answers with, tabulated
Machines ==
  { [avail |-> d.avail, vendor |-> d.vendor, gen |-> d.gen, prof |-> d.prof,
     regs |-> [q \in Leaves \X Subleaves |-> Registers(d, q[1], q[2])] @@ << >>] :
      d \in Designs }

\* __cpuidex(out, leaf, sub) on machine m (zeros outside the table)
Answer(m, leaf, sub) ==
  IF <<leaf, sub>> \in DOMAIN m.regs THEN m.regs[<<leaf, sub>>] ELSE Zeros

(***************************************************************************)
(* Helpers and intrinsics.                                                 *)
(***************************************************************************)
\* the set-only decode of the earlier revision: instructions |= feature_mask
\* when the probed bit is 1, nothing otherwise
update_inst_availability_set_only(instructions, flags, flag_bit, feature_mask) ==
  IF And(Shr(flags, flag_bit), 1) = 1 THEN Or(instructions, feature_mask) ELSE instructions

update_inst_availability(instructions, flags, flag_bit, feature_mask) ==
  LET isolated_bit == And(Shr(flags, flag_bit), 1)
      xor_mask     == And(Xor(Neg(isolated_bit), instructions), feature_mask)
  IN  Xor(instructions, xor_mask)

\* __writeeflags on machine m: the ID bit (bit 21) can be changed only where
\* the CPUID instruction exists
writeeflags(m, old, new) ==
  IF m.avail THEN new ELSE Or(And(new, Xor(-1, 2^21)), And(old, 2^21))

(***************************************************************************)
(* The state of one call: the cpu_specs singleton, the 8 bytes in front of *)
(* it (where cache_level_specs[-1] lies), the flag register, the trace of  *)
(* the intrinsics executed and of the cache indexes written, and the fault *)
(* that ended the call, if any.                                            *)
(***************************************************************************)
Cpuid(x, leaf, sub) == [x EXCEPT !.log = Append(@, <<"cpuid", leaf, sub>>)]

\* the call of function f, unless the process has ended
Call(x, f) == IF x.fault # "none" THEN x ELSE [x EXCEPT !.log = Append(@, <<"call", f, 0>>)]

Level(size, count) == [data_cache_size |-> size, attached_core_count |-> count]

\* a store that adds the size to the size already held
StoreLevelAccumulating(x, idx, size, count) ==
  IF idx \in 0..(CACHE_LEVEL_COUNT - 1)
  THEN [x EXCEPT !.specs.cache_level_specs[idx] =
                    Level(AddWrap(@.data_cache_size, size), count),
                 !.widx = @ \cup {idx}]
  ELSE [x EXCEPT !.below = Level(AddWrap(@.data_cache_size, size), count),
                 !.widx = @ \cup {idx}]

\* a store through &cpu_specs.cache_level_specs[idx]
StoreLevel(x, idx, size, count) ==
  IF idx \in 0..(CACHE_LEVEL_COUNT - 1)
  THEN [x EXCEPT !.specs.cache_level_specs[idx] = Level(size, count),
                 !.widx = @ \cup {idx}]
  ELSE [x EXCEPT !.below = Level(size, count), !.widx = @ \cup {idx}]

Fault(x) == [x EXCEPT !.fault = "div0"]

(***************************************************************************)
(* Globals.                                                                *)
(***************************************************************************)
\* a struct cpu_specs without initializer: every member zero
cpu_specs_zero_initialized(target) ==
  [ cache_level_specs |-> [i \in 0..(CACHE_LEVEL_COUNT - 1) |-> Level(0, 0)],
    cache_line_size   |-> 0,
    threads_per_core  |-> 0,
    core_count        |-> 0,
    instructions      |-> 0 ]

cpu_specs_initializer(target) ==
  [ cache_level_specs |-> [i \in 0..(CACHE_LEVEL_COUNT - 1) |->
                             IF i = L1 THEN Level(KiB(4), 1) ELSE Level(0, 0)],
    cache_line_size   |-> 64,
    threads_per_core  |-> 1,
    core_count        |-> 1,
    instructions      |-> IF target = "x64" THEN Or(SSE1, SSE2) ELSE 0 ]

\* "Unknown" followed by zero bytes
UnknownString(n) == [i \in 1..n |-> IF i <= 7 THEN <<85, 110, 107, 110, 111, 119, 110>>[i] ELSE 0]

cpu_identity_initializer ==
  [ family |-> 0, model |-> 0, stepping |-> 0,
    manufacturer |-> UnknownString(12),
    name         |-> UnknownString(48) ]

(***************************************************************************)
(* The decode rules: the register of the leaf, the bit probed, the flag.   *)
(* instructions = update_inst_availability(instructions, out[reg], bit,    *)
(* flag) for the first n rules of a table, in order.                       *)
(***************************************************************************)
Leaf1Rules == << <<EDX,  4, RDTSCP>>, <<EDX, 25, SSE1>>,   <<EDX, 26, SSE2>>,
                 <<ECX,  0, SSE3>>,   <<ECX,  9, SSSE3>>,  <<ECX, 12, FMA3>>,
                 <<ECX, 19, SSE4_1>>, <<ECX, 20, SSE4_2>>, <<ECX, 23, POPCNT>>,
                 <<ECX, 28, AVX1>>,   <<ECX, 29, F16C>> >>

Leaf7Rules == << <<EBX, 3, BMI1>>, <<EBX, 3, TZCNT>>, <<EBX, 5, AVX2>>, <<EBX, 8, BMI2>> >>

ExtLeaf1Rules == << <<ECX, 5, LZCNT>> >>

AmdExtLeaf1Rules == << <<ECX, 21, TBM>> >>

IntelLeaf7Rules == << <<EBX, 16, AVX512F>> >>

RECURSIVE ApplyRules(_, _, _, _)
ApplyRules(instructions, out, rules, n) ==
  IF n = 0 THEN instructions
  ELSE update_inst_availability(ApplyRules(instructions, out, rules, n - 1),
                                out[rules[n][1]], rules[n][2], rules[n][3])

(***************************************************************************)
(* AMD functions.                                                          *)
(***************************************************************************)
\* a topology decoder whose legacy path accepts the leaf 1 candidate without
\* looking at leaf 0x80000001
cpu_specs_amd_get_cores_info_unconfirmed(x, cpuid_ctx, m) ==
  IF UGe(cpuid_ctx.max_standard_func, 11)
  THEN LET tpc == And(Answer(m, 11, 0)[EBX], 65535)
           x1  == [Cpuid(Cpuid(x, 11, 0), 11, 1) EXCEPT !.specs.threads_per_core = tpc]
       IN  IF tpc = 0 THEN Fault(x1)
           ELSE [x1 EXCEPT !.specs.core_count =
                             CDiv(And(Answer(m, 11, 1)[EBX], 65535), tpc)]
  ELSE LET out1 == Answer(m, 1, 0)
           hyperthreaded == And(Shr(out1[EDX], 28), 1)
           x1 == [Cpuid(x, 1, 0) EXCEPT !.specs.threads_per_core = hyperthreaded + 1]
       IN  IF UGe(cpuid_ctx.max_extended_func, X80000000 + 8)
           THEN [Cpuid(x1, X80000000 + 8, 0) EXCEPT
                   !.specs.core_count =
                      Shr(And(Answer(m, X80000000 + 8, 0)[ECX], 255) + 1, hyperthreaded)]
           ELSE IF hyperthreaded # 0
           THEN [(IF UGe(cpuid_ctx.max_extended_func, X80000000 + 1)
                  THEN Cpuid(x1, X80000000 + 1, 0) ELSE x1) EXCEPT
                   !.specs.core_count = Shr(And(Shr(out1[EBX], 16), 255), 1)]
           ELSE x1

cpu_specs_amd_get_cores_info(x, cpuid_ctx, m) ==
  IF UGe(cpuid_ctx.max_standard_func, 11)
  THEN LET out0 == Answer(m, 11, 0)
           tpc  == And(out0[EBX], 65535)
           out1 == Answer(m, 11, 1)
           total_thread_count == And(out1[EBX], 65535)
           x1 == [Cpuid(Cpuid(x, 11, 0), 11, 1) EXCEPT !.specs.threads_per_core = tpc]
       IN  IF tpc = 0 THEN Fault(x1)
           ELSE [x1 EXCEPT !.specs.core_count = CDiv(total_thread_count, tpc)]
  ELSE LET out1 == Answer(m, 1, 0)
           hyperthreaded == And(Shr(out1[EDX], 28), 1)
           x1 == [Cpuid(x, 1, 0) EXCEPT !.specs.threads_per_core = hyperthreaded + 1]
       IN  IF UGe(cpuid_ctx.max_extended_func, X80000000 + 8)
           THEN LET out8 == Answer(m, X80000000 + 8, 0)
                    total_thread_count == And(out8[ECX], 255) + 1
                IN  [Cpuid(x1, X80000000 + 8, 0) EXCEPT
                       !.specs.core_count = Shr(total_thread_count, hyperthreaded)]
           ELSE IF hyperthreaded # 0
           THEN LET total_thread_count == And(Shr(out1[EBX], 16), 255)
                    core_count == Shr(total_thread_count, 1)
                IN  IF UGe(cpuid_ctx.max_extended_func, X80000000 + 1)
                    THEN LET oute == Answer(m, X80000000 + 1, 0)
                             x2 == Cpuid(x1, X80000000 + 1, 0)
                         IN  IF And(oute[ECX], 2^1) # 0
                             THEN [x2 EXCEPT !.specs.core_count = core_count]
                             ELSE x2
                    ELSE [x1 EXCEPT !.specs.core_count = core_count]
           ELSE x1

\* one cache descriptor of leaf 0x8000001D (the body of the if in the loop)
amd_cache_descriptor(x, out) ==
  LET cache_level      == And(Shr(out[EAX], 5), 3)
      cache_set_ways   == AddWrap(Shr(out[EBX], 22), 1)
      cache_partitions == And(Shr(out[EBX], 12), 1023) + 1
      cache_set_count  == AddWrap(out[ECX], 1)
      cache_line_count == MulWrap(MulWrap(cache_partitions, cache_set_ways), cache_set_count)
      cache_idx        == cache_level - 1
      size             == MulWrap(cache_line_count, x.specs.cache_line_size)
      attached_thread_count == And(Shr(out[EAX], 14), 4095) + 1
  IN  IF x.specs.threads_per_core = 0
      THEN Fault(StoreLevel(x, cache_idx, size,
                            IF cache_idx \in 0..2
                            THEN x.specs.cache_level_specs[cache_idx].attached_core_count
                            ELSE x.below.attached_core_count))
      ELSE StoreLevel(x, cache_idx, size,
                      CDiv(attached_thread_count, x.specs.threads_per_core))

\* the do ... while loop over the subleaves of leaf 0x8000001D
RECURSIVE amd_cache_loop(_, _, _, _)
amd_cache_loop(x, m, out, subfunc) ==
  LET x1   == IF And(out[EAX], 1) # 0 THEN amd_cache_descriptor(x, out) ELSE x
      next == Answer(m, X80000000 + 29, subfunc + 1)
      x2   == Cpuid(x1, X80000000 + 29, subfunc + 1)
  IN  IF x1.fault # "none" THEN x1
      ELSE IF And(next[EAX], 15) # 0 THEN amd_cache_loop(x2, m, next, subfunc + 1)
      ELSE x2

cpu_specs_amd_get_caches_info(x, cpuid_ctx, m) ==
  IF x.fault # "none" THEN x  \* not reached after a division by zero
  ELSE IF UGe(cpuid_ctx.max_extended_func, X80000000 + 29)
  THEN LET oute == Answer(m, X80000000 + 1, 0)
           topology_extensions_supported == And(oute[ECX], 2^22)
           x1 == Cpuid(x, X80000000 + 1, 0)
       IN  IF topology_extensions_supported # 0
           THEN LET out == Answer(m, X80000000 + 29, 0)
                    x2  == [Cpuid(x1, X80000000 + 29, 0) EXCEPT
                              !.specs.cache_line_size = And(out[EBX], 127) + 1]
                IN  amd_cache_loop(x2, m, out, 0)
           ELSE x1
  ELSE IF UGe(cpuid_ctx.max_extended_func, X80000000 + 5)
  THEN LET out5 == Answer(m, X80000000 + 5, 0)
           x1 == [Cpuid(x, X80000000 + 5, 0) EXCEPT
                    !.specs.cache_line_size = And(out5[ECX], 255)]
           x2 == StoreLevel(x1, L1, MulWrap(And(Shr(out5[ECX], 24), 255), KiB(1)), 1)
       IN  IF UGe(cpuid_ctx.max_extended_func, X80000000 + 6)
           THEN LET out6 == Answer(m, X80000000 + 6, 0)
                    x3 == StoreLevel(Cpuid(x2, X80000000 + 6, 0), L2,
                                     MulWrap(And(Shr(out6[ECX], 16), 65535), KiB(1)), 1)
                IN  StoreLevel(x3, L3,
                               MulWrap(And(Shr(out6[EDX], 18), 262143), KiB(512)),
                               x3.specs.core_count)
           ELSE x2
  ELSE x

\* s32 avx512_available = (cpuid_out[EAX] == 0x40) && (cpuid_out[EBX] == 0x340);
\* cpu_specs.instructions ^= (-avx512_available ^ cpu_specs.instructions) & AVX512F
amd_avx512_update(instructions, out) ==
  LET avx512_available == IF out[EAX] = 64 /\ out[EBX] = 832 THEN 1 ELSE 0
  IN  Xor(instructions, And(Xor(Neg(avx512_available), instructions), AVX512F))

\* an instruction decoder that updates TBM whatever the highest extended leaf
cpu_specs_amd_get_instructions_ungated(x, cpuid_ctx, m) ==
  IF x.fault # "none" THEN x
  ELSE [Cpuid((IF UGe(cpuid_ctx.max_standard_func, 11) THEN Cpuid(x, 13, 5) ELSE x),
              X80000000 + 1, 0) EXCEPT
          !.specs.instructions =
             ApplyRules(IF UGe(cpuid_ctx.max_standard_func, 11)
                        THEN amd_avx512_update(@, Answer(m, 13, 5)) ELSE @,
                        Answer(m, X80000000 + 1, 0), AmdExtLeaf1Rules, 1)]

cpu_specs_amd_get_instructions(x, cpuid_ctx, m) ==
  IF x.fault # "none" THEN x  \* not reached after a division by zero
  ELSE
  LET x1 == IF UGe(cpuid_ctx.max_standard_func, 11)
            THEN [Cpuid(x, 13, 5) EXCEPT
                    !.specs.instructions = amd_avx512_update(@, Answer(m, 13, 5))]
            ELSE x
      oute == Answer(m, X80000000 + 1, 0)
  IN  IF UGe(cpuid_ctx.max_extended_func, 11)
      THEN [Cpuid(x1, X80000000 + 1, 0) EXCEPT
              !.specs.instructions = ApplyRules(@, oute, AmdExtLeaf1Rules, 1)]
      ELSE x1

(***************************************************************************)
(* Intel functions.                                                        *)
(***************************************************************************)
\* a topology decoder that never prefers leaf 0x1F
cpu_specs_intel_get_cores_info_leaf_0xB(x, cpuid_ctx, m) ==
  cpu_specs_amd_get_cores_info(x, cpuid_ctx, m)

cpu_specs_intel_get_cores_info(x, cpuid_ctx, m) ==
  IF UGe(cpuid_ctx.max_standard_func, 11)
  THEN LET higher_func == IF UGe(cpuid_ctx.max_standard_func, 31) THEN 31 ELSE 11
           out0 == Answer(m, higher_func, 0)
           tpc  == And(out0[EBX], 65535)
           out1 == Answer(m, higher_func, 1)
           total_thread_count == And(out1[EBX], 65535)
           x1 == [Cpuid(Cpuid(x, higher_func, 0), higher_func, 1) EXCEPT
                    !.specs.threads_per_core = tpc]
       IN  IF tpc = 0 THEN Fault(x1)
           ELSE [x1 EXCEPT !.specs.core_count = CDiv(total_thread_count, tpc)]
  ELSE LET out1 == Answer(m, 1, 0)
           hyperthreaded == And(Shr(out1[EDX], 28), 1)
           x1 == [Cpuid(x, 1, 0) EXCEPT !.specs.threads_per_core = hyperthreaded + 1]
       IN  IF hyperthreaded # 0
           THEN LET total_thread_count == And(Shr(out1[EBX], 16), 255)
                IN  [x1 EXCEPT !.specs.core_count =
                                 CDiv(total_thread_count, x1.specs.threads_per_core)]
           ELSE x1

\* one cache descriptor of leaf 4 (the body of the if in the loop)
intel_cache_descriptor(x, out) ==
  LET cache_level      == And(Shr(out[EAX], 5), 3)
      cache_set_ways   == AddWrap(Shr(out[EBX], 22), 1)
      cache_partitions == And(Shr(out[EBX], 12), 1023) + 1
      cache_set_count  == AddWrap(out[ECX], 1)
      cache_line_count == MulWrap(MulWrap(cache_partitions, cache_set_ways), cache_set_count)
      cache_idx        == cache_level - 1
      size             == MulWrap(cache_line_count, x.specs.cache_line_size)
      old_count        == IF cache_idx \in 0..2
                          THEN x.specs.cache_level_specs[cache_idx].attached_core_count
                          ELSE x.below.attached_core_count
      max_attached_thread_count == And(Shr(out[EAX], 14), 4095) + 1
      max_attached_core_count   == CDiv(max_attached_thread_count, x.specs.threads_per_core)
  IN  IF x.specs.threads_per_core = 0
      THEN Fault(StoreLevel(x, cache_idx, size, old_count))
      ELSE IF max_attached_core_count <= x.specs.core_count
      THEN StoreLevel(x, cache_idx, size, max_attached_core_count)
      ELSE StoreLevel(x, cache_idx, size, x.specs.core_count)

\* the while loop over the subleaves of leaf 4
RECURSIVE intel_cache_loop(_, _, _, _)
intel_cache_loop(x, m, out, subfunc) ==
  IF And(out[EAX], 15) # 0
  THEN LET x1 == IF And(out[EAX], 1) # 0 THEN intel_cache_descriptor(x, out) ELSE x
       IN  IF x1.fault # "none" THEN x1
           ELSE intel_cache_loop(Cpuid(x1, 4, subfunc + 1), m,
                                 Answer(m, 4, subfunc + 1), subfunc + 1)
  ELSE x

cpu_specs_intel_get_caches_info(x, cpuid_ctx, m) ==
  IF x.fault # "none" THEN x  \* not reached after a division by zero
  ELSE IF UGe(cpuid_ctx.max_standard_func, 4)
  THEN LET out == Answer(m, 4, 0)
           x1  == [Cpuid(x, 4, 0) EXCEPT !.specs.cache_line_size = And(out[EBX], 127) + 1]
       IN  intel_cache_loop(x1, m, out, 0)
  ELSE x

cpu_specs_intel_get_instructions(x, cpuid_ctx, m) ==
  IF x.fault # "none" THEN x  \* not reached after a division by zero
  ELSE IF UGe(cpuid_ctx.max_standard_func, 7)
  THEN [Cpuid(x, 7, 0) EXCEPT
          !.specs.instructions = ApplyRules(@, Answer(m, 7, 0), IntelLeaf7Rules, 1)]
  ELSE x

(***************************************************************************)
(* CPU-independent functions.                                              *)
(***************************************************************************)
\* cpuid_is_available() on flag register value flags: the value returned and
\* the flag register it leaves
cpuid_is_available(m, flags) ==
  LET flags_cpuid_mask == 2^21
      orig_eflags      == flags
      modified_eflags  == Xor(orig_eflags, flags_cpuid_mask)
      updated_eflags   == writeeflags(m, orig_eflags, modified_eflags)
  IN  [ret |-> (modified_eflags = updated_eflags), eflags |-> updated_eflags]

Probe(x, m) ==
  LET r == cpuid_is_available(m, x.eflags)
  IN  [x EXCEPT !.eflags = r.eflags, !.log = Append(@, <<"probe", 0, 0>>)]

cpu_specs_get_common_instructions(x, cpuid_ctx, m) ==
  LET i1 == ApplyRules(x.specs.instructions, Answer(m, 1, 0), Leaf1Rules, Len(Leaf1Rules))
      x1 == Cpuid(x, 1, 0)
      i7 == ApplyRules(i1, Answer(m, 7, 0), Leaf7Rules, Len(Leaf7Rules))
      x7 == Cpuid(x1, 7, 0)
      ie == ApplyRules(i7, Answer(m, X80000000 + 1, 0), ExtLeaf1Rules, Len(ExtLeaf1Rules))
      xe == Cpuid(x7, X80000000 + 1, 0)
  IN  IF UGe(cpuid_ctx.max_standard_func, 7)
      THEN IF UGe(cpuid_ctx.max_extended_func, X80000000 + 1)
           THEN [xe EXCEPT !.specs.instructions = ie]
           ELSE [x7 EXCEPT !.specs.instructions = i7]
      ELSE [x1 EXCEPT !.specs.instructions = i1]

(***************************************************************************)
(* CPUID context.                                                          *)
(***************************************************************************)
\* the two queries that fill a struct cpuid_ctx
read_cpuid_ctx(m) ==
  [max_standard_func |-> Answer(m, 0, 0)[EAX],
   max_extended_func |-> Answer(m, X80000000, 0)[EAX]]

NewCall(specs, bel, flags) ==
  [specs |-> specs, below |-> bel, eflags |-> flags, log |-> << >>, widx |-> {},
   fault |-> "none"]

\* the context resolver of the earlier revision: no availability gate
cpuid_ctx_get_unguarded(x0, m) ==
  [ret |-> read_cpuid_ctx(m), x |-> Cpuid(Cpuid(Probe(x0, m), 0, 0), X80000000, 0)]

\* a resolver that returns the two maximum leaves in each other's field
cpuid_ctx_get_swapped(x0, m) ==
  [ret |-> [max_standard_func |-> read_cpuid_ctx(m).max_extended_func,
            max_extended_func |-> read_cpuid_ctx(m).max_standard_func],
   x |-> Cpuid(Cpuid(Probe(x0, m), 0, 0), X80000000, 0)]

\* cpuid_ctx_get(): the context returned and the state of the call
cpuid_ctx_get(x0, m) ==
  LET available == cpuid_is_available(m, x0.eflags).ret
      x1 == Probe(x0, m)
  IN  IF available
      THEN [ret |-> read_cpuid_ctx(m), x |-> Cpuid(Cpuid(x1, 0, 0), X80000000, 0)]
      ELSE [ret |-> [max_standard_func |-> 0, max_extended_func |-> 0], x |-> x1]

(***************************************************************************)
(* CPU specs.                                                              *)
(***************************************************************************)
\* a dispatcher that takes every processor that is not Intel's for AMD's
vendor_pipelines_amd_unless_intel(x, cpuid_ctx, m) ==
  LET cpu_manufacturer_ecx == Answer(m, 0, 0)[ECX]
  IN  IF cpu_manufacturer_ecx # CPU_MANUFACTURER_INTEL
      THEN cpu_specs_amd_get_instructions(
             Call(cpu_specs_amd_get_caches_info(
                    Call(cpu_specs_amd_get_cores_info(
                           Call(Cpuid(x, 0, 0), "cpu_specs_amd_get_cores_info"),
                           cpuid_ctx, m),
                         "cpu_specs_amd_get_caches_info"),
                    cpuid_ctx, m),
                  "cpu_specs_amd_get_instructions"),
             cpuid_ctx, m)
      ELSE cpu_specs_intel_get_instructions(
             Call(cpu_specs_intel_get_caches_info(
                    Call(cpu_specs_intel_get_cores_info(
                           Call(Cpuid(x, 0, 0), "cpu_specs_intel_get_cores_info"),
                           cpuid_ctx, m),
                         "cpu_specs_intel_get_caches_info"),
                    cpuid_ctx, m),
                  "cpu_specs_intel_get_instructions"),
             cpuid_ctx, m)

\* a dispatcher that calls the cache decoder before the topology decoder
vendor_pipelines_caches_first(x, cpuid_ctx, m) ==
  LET cpu_manufacturer_ecx == Answer(m, 0, 0)[ECX]
  IN  IF cpu_manufacturer_ecx = CPU_MANUFACTURER_AMD
      THEN cpu_specs_amd_get_instructions(
             Call(cpu_specs_amd_get_cores_info(
                    Call(cpu_specs_amd_get_caches_info(
                           Call(Cpuid(x, 0, 0), "cpu_specs_amd_get_caches_info"),
                           cpuid_ctx, m),
                         "cpu_specs_amd_get_cores_info"),
                    cpuid_ctx, m),
                  "cpu_specs_amd_get_instructions"),
             cpuid_ctx, m)
      ELSE IF cpu_manufacturer_ecx = CPU_MANUFACTURER_INTEL
      THEN cpu_specs_intel_get_instructions(
             Call(cpu_specs_intel_get_cores_info(
                    Call(cpu_specs_intel_get_caches_info(
                           Call(Cpuid(x, 0, 0), "cpu_specs_intel_get_caches_info"),
                           cpuid_ctx, m),
                         "cpu_specs_intel_get_cores_info"),
                    cpuid_ctx, m),
                  "cpu_specs_intel_get_instructions"),
             cpuid_ctx, m)
      ELSE Cpuid(x, 0, 0)

\* the vendor branches of cpu_specs_init(), entered with the common
\* instructions decoded
vendor_pipelines(x, cpuid_ctx, m) ==
  LET cpu_manufacturer_ecx == Answer(m, 0, 0)[ECX]
  IN  IF cpu_manufacturer_ecx = CPU_MANUFACTURER_AMD
      THEN cpu_specs_amd_get_instructions(
             Call(cpu_specs_amd_get_caches_info(
                    Call(cpu_specs_amd_get_cores_info(
                           Call(Cpuid(x, 0, 0), "cpu_specs_amd_get_cores_info"),
                           cpuid_ctx, m),
                         "cpu_specs_amd_get_caches_info"),
                    cpuid_ctx, m),
                  "cpu_specs_amd_get_instructions"),
             cpuid_ctx, m)
      ELSE IF cpu_manufacturer_ecx = CPU_MANUFACTURER_INTEL
      THEN cpu_specs_intel_get_instructions(
             Call(cpu_specs_intel_get_caches_info(
                    Call(cpu_specs_intel_get_cores_info(
                           Call(Cpuid(x, 0, 0), "cpu_specs_intel_get_cores_info"),
                           cpuid_ctx, m),
                         "cpu_specs_intel_get_caches_info"),
                    cpuid_ctx, m),
                  "cpu_specs_intel_get_instructions"),
             cpuid_ctx, m)
      ELSE Cpuid(x, 0, 0)

\* a pass that starts from the static initializer whatever cpu_specs held
cpu_specs_init_resetting(x0, m) ==
  IF cpuid_is_available(m, x0.eflags).ret
  THEN vendor_pipelines(
         cpu_specs_get_common_instructions(
           Call(Cpuid(Cpuid(Probe([x0 EXCEPT !.specs = cpu_specs_initializer(isa)], m), 0, 0),
                      X80000000, 0),
                "cpu_specs_get_common_instructions"),
           read_cpuid_ctx(m), m),
         read_cpuid_ctx(m), m)
  ELSE Probe(x0, m)

cpu_specs_init(x0, m) ==
  IF cpuid_is_available(m, x0.eflags).ret
  THEN vendor_pipelines(
         cpu_specs_get_common_instructions(
           Call(Cpuid(Cpuid(Probe(x0, m), 0, 0), X80000000, 0),
                "cpu_specs_get_common_instructions"),
           read_cpuid_ctx(m), m),
         read_cpuid_ctx(m), m)
  ELSE Probe(x0, m)

(***************************************************************************)
(* CPU identity.  The two character arrays of struct cpu_identity are kept *)
(* as the 60 bytes they occupy: manufacturer at offsets 0..11, name at     *)
(* offsets 12..59.                                                         *)
(***************************************************************************)
ManufacturerSize == 12
NameSize == 48

manufacturer(id) == [i \in 0..(ManufacturerSize - 1) |-> id.chars[i]]
name(id)         == [i \in 0..(NameSize - 1) |-> id.chars[ManufacturerSize + i]]

\* *(u32*)(chars + off) = w
StoreWord(chars, off, w) ==
  LET b == BytesOf(w)
  IN  [chars EXCEPT ![off] = b[1], ![off + 1] = b[2], ![off + 2] = b[3], ![off + 3] = b[4]]

\* *(s32*)(chars + off)
LoadWord(chars, off) == WordOf(<<chars[off], chars[off + 1], chars[off + 2], chars[off + 3]>>)

\* __cpuidex((s32*)(chars + off), ...): the four registers stored in slot order
StoreRegs(chars, off, out) ==
  StoreWord(StoreWord(StoreWord(StoreWord(chars, off, out[EAX]), off + 4, out[EBX]),
                      off + 8, out[ECX]), off + 12, out[EDX])

\* the three stores in register order EBX, ECX, EDX
store_manufacturer_in_register_order(chars, out) ==
  StoreWord(StoreWord(StoreWord(chars, 0, out[EBX]), 4, out[ECX]), 8, out[EDX])

\* the three stores through manufacturer_4bytes
store_manufacturer(chars, out) ==
  StoreWord(StoreWord(StoreWord(chars, 0, out[EBX]), 4, out[EDX]), 8, out[ECX])

\* the decode without the Intel family 6 rule
family_model_stepping_without_intel_rule(eax, manufacturer_ecx) ==
  LET family   == And(Shr(eax, 8), 15)
      model    == And(Shr(eax, 4), 15)
      extended_family == And(Shr(eax, 20), 255)
      extended_model  == And(Shr(eax, 12), 240)
  IN  [family   |-> IF family = 15 THEN family + extended_family ELSE family,
       model    |-> IF family = 15 THEN Or(model, extended_model) ELSE model,
       stepping |-> And(eax, 15)]

\* family, model and stepping from leaf 1 EAX and the last signature word
family_model_stepping(eax, manufacturer_ecx) ==
  LET family   == And(Shr(eax, 8), 15)
      model    == And(Shr(eax, 4), 15)
      stepping == And(eax, 15)
      extended_family == And(Shr(eax, 20), 255)
      extended_model  == And(Shr(eax, 12), 240)
      family1 == IF family = 15 THEN family + extended_family ELSE family
      model1  == IF family = 15 THEN Or(model, extended_model) ELSE model
      model2  == IF manufacturer_ecx = CPU_MANUFACTURER_INTEL /\ family1 = 6
                 THEN Or(model1, extended_model) ELSE model1
  IN  [family |-> family1, model |-> model2, stepping |-> stepping]

cpu_identity_initial ==
  [family |-> cpu_identity_initializer.family,
   model |-> cpu_identity_initializer.model,
   stepping |-> cpu_identity_initializer.stepping,
   chars |-> [i \in 0..(ManufacturerSize + NameSize - 1) |->
                IF i < ManufacturerSize
                THEN cpu_identity_initializer.manufacturer[i + 1]
                ELSE cpu_identity_initializer.name[i - ManufacturerSize + 1]]]

NewIdCall(id, flags) == [id |-> id, eflags |-> flags, log |-> << >>, fault |-> "none"]

\* the manufacturer string
identity_manufacturer(x, m) ==
  [Cpuid(x, 0, 0) EXCEPT !.id.chars = store_manufacturer(@, Answer(m, 0, 0))]

\* the family, model and stepping
identity_family_model_stepping(x, m) ==
  [Cpuid(x, 1, 0) EXCEPT
     !.id.family   = family_model_stepping(Answer(m, 1, 0)[EAX], LoadWord(x.id.chars, 8)).family,
     !.id.model    = family_model_stepping(Answer(m, 1, 0)[EAX], LoadWord(x.id.chars, 8)).model,
     !.id.stepping = family_model_stepping(Answer(m, 1, 0)[EAX], LoadWord(x.id.chars, 8)).stepping]

\* the processor name string, if available
identity_name(x, m) ==
  IF UGe(Answer(m, X80000000, 0)[EAX], X80000000 + 4)
  THEN [Cpuid(Cpuid(Cpuid(Cpuid(x, X80000000, 0), X80000000 + 2, 0), X80000000 + 3, 0),
              X80000000 + 4, 0)
          EXCEPT !.id.chars =
            StoreRegs(StoreRegs(StoreRegs(@,
              ManufacturerSize,      Answer(m, X80000000 + 2, 0)),
              ManufacturerSize + 16, Answer(m, X80000000 + 3, 0)),
              ManufacturerSize + 32, Answer(m, X80000000 + 4, 0))]
  ELSE Cpuid(x, X80000000, 0)

cpu_identity_init(x0, m) ==
  IF cpuid_is_available(m, x0.eflags).ret
  THEN identity_name(identity_family_model_stepping(identity_manufacturer(Probe(x0, m), m), m), m)
  ELSE Probe(x0, m)

(***************************************************************************)
(* The program: a process that owns the two singletons and calls the three *)
(* entry points in any order, on hardware whose answers may change between *)
(* two calls (a refresh after a migration to another host).  A call that   *)
(* divides by zero ends the process.                                       *)
(***************************************************************************)
NoCtx == [max_standard_func |-> 0, max_extended_func |-> 0]

\* no concurrent callers: the entry points are called one after the other
NoThreads == [pc |-> << >>, hw |-> << >>, overlap |-> FALSE]

Init ==
  /\ isa \in {"x64", "x86"}
  /\ hw \in Machines
  /\ eflags = 514
  /\ cpu_specs = cpu_specs_initializer(isa)
  /\ below = Level(0, 0)
  /\ cpu_identity = cpu_identity_initial
  /\ last = [op |-> "none", hw |-> hw, avail |-> FALSE, log |-> << >>, widx |-> {},
             fault |-> "none", pre_specs |-> cpu_specs_initializer(isa),
             pre_identity |-> cpu_identity_initial, pre_eflags |-> 514, ret |-> NoCtx,
             passes |-> 0]
  /\ streak = 0
  /\ calls = 0
  /\ changes = 0
  /\ threads = NoThreads

Running == calls < MaxCalls /\ last.fault = "none"

Streak(op) == IF last.op = op /\ last.hw = hw THEN 2 ELSE 1

CallRecord(op, x, ret) ==
  [op |-> op, hw |-> hw, avail |-> cpuid_is_available(hw, eflags).ret, log |-> x.log,
   widx |-> IF op = "cpu_specs_init" THEN x.widx ELSE {}, fault |-> x.fault,
   pre_specs |-> cpu_specs, pre_identity |-> cpu_identity, pre_eflags |-> eflags,
   ret |-> ret,
   passes |-> IF op = "cpuid_ctx_get" THEN last.passes ELSE last.passes + 1]

CpuSpecsInit ==
  /\ Running
  /\ \E x \in {cpu_specs_init(NewCall(cpu_specs, below, eflags), hw)} :
         /\ cpu_specs' = x.specs
         /\ below' = x.below
         /\ eflags' = x.eflags
         /\ last' = CallRecord("cpu_specs_init", x, NoCtx)
  /\ streak' = Streak("cpu_specs_init")
  /\ calls' = calls + 1
  /\ UNCHANGED <<threads, isa, hw, cpu_identity, changes>>

CpuIdentityInit ==
  /\ Running
  /\ \E x \in {cpu_identity_init(NewIdCall(cpu_identity, eflags), hw)} :
         /\ cpu_identity' = x.id
         /\ eflags' = x.eflags
         /\ last' = CallRecord("cpu_identity_init", x, NoCtx)
  /\ streak' = Streak("cpu_identity_init")
  /\ calls' = calls + 1
  /\ UNCHANGED <<threads, isa, hw, cpu_specs, below, changes>>

CpuidCtxGet ==
  /\ Running
  /\ \E r \in {cpuid_ctx_get(NewCall(cpu_specs, below, eflags), hw)} :
         /\ eflags' = r.x.eflags
         /\ last' = CallRecord("cpuid_ctx_get", r.x, r.ret)
  /\ streak' = Streak("cpuid_ctx_get")
  /\ calls' = calls + 1
  /\ UNCHANGED <<threads, isa, hw, cpu_specs, below, cpu_identity, changes>>

HardwareChange ==
  /\ Running
  /\ calls > 0
  /\ changes < MaxHwChanges
  /\ \E m \in Machines \ {hw} : hw' = m
  /\ changes' = changes + 1
  /\ UNCHANGED <<threads, isa, eflags, cpu_specs, below, cpu_identity, last, streak, calls>>

Next == CpuSpecsInit \/ CpuIdentityInit \/ CpuidCtxGet \/ HardwareChange

Spec == Init /\ [][Next]_vars

(***************************************************************************)
(* The Defaults Provider baseline: cpu_specs_set_defaults() of the earlier *)
(* revision (src/cpu_specs.c), which the present revision replaces by the  *)
(* static initializers.                                                    *)
(***************************************************************************)
cpu_specs_set_defaults ==
  [ cache_level_specs |-> [i \in 0..(CACHE_LEVEL_COUNT - 1) |->
                             IF i = L1 THEN Level(KiB(4), 1) ELSE Level(0, 0)],
    cache_line_size   |-> 64,
    threads_per_core  |-> 1,
    core_count        |-> 1,
    instructions      |-> 0 ]

(***************************************************************************)
(* Properties.  last describes the last call made: the hardware it ran on, *)
(* whether the probe found CPUID, the intrinsics it executed in order, and *)
(* the singletons before it.                                               *)
(***************************************************************************)
LeafQueries(log) == {i \in 1..Len(log) : log[i][1] = "cpuid"}

\* the leaf 0 signature word the dispatcher compares, and the two maximum leaves
VendorWord(m) == Answer(m, 0, 0)[ECX]
MaxStandardLeaf(m) == Answer(m, 0, 0)[EAX]
MaxExtendedLeaf(m) == Answer(m, X80000000, 0)[EAX]

\* C1: whenever the availability probe reports false during cpu_specs_init()
\* or cpu_identity_init(), the singleton the call fills equals the Defaults
\* Provider baseline after the call, whatever it held before.
C1_DefaultsWhenUnavailable ==
  /\ (last.op = "cpu_specs_init" /\ ~last.avail) => cpu_specs = cpu_specs_set_defaults
  /\ (last.op = "cpu_identity_init" /\ ~last.avail) => cpu_identity = cpu_identity_initial

\* C2: in every call of the three entry points the availability probe is the
\* first intrinsic sequence executed, before any leaf query, and a call whose
\* probe returned false issues no leaf query at all.
C2_ProbeBeforeQueries ==
  last.op # "none" =>
    /\ Len(last.log) >= 1
    /\ last.log[1] = <<"probe", 0, 0>>
    /\ ~last.avail => LeafQueries(last.log) = {}

C2_Witness ==
  /\ last.op = "cpu_specs_init"
  /\ ~last.avail
  /\ last.pre_specs # cpu_specs_initializer(isa)
  /\ last.log = << <<"probe", 0, 0>> >>

\* C3: a second consecutive call of cpu_specs_init() (of cpu_identity_init())
\* on unchanged hardware leaves cpu_specs (cpu_identity) field for field as
\* the first call left it.
C3_Idempotent ==
  (streak = 2 /\ last.fault = "none") =>
    /\ last.op = "cpu_specs_init" => cpu_specs = last.pre_specs
    /\ last.op = "cpu_identity_init" => cpu_identity = last.pre_identity

C3_Witness ==
  /\ streak = 2
  /\ last.op = "cpu_specs_init"
  /\ last.avail
  /\ last.fault = "none"
  /\ VendorWord(last.hw) = CPU_MANUFACTURER_AMD
  /\ last.widx = {L1, L2, L3}
  /\ cpu_specs = last.pre_specs

\* the pass made from the initial contents on machine m
FreshPass(m) ==
  cpu_specs_init(NewCall(cpu_specs_initializer(isa), Level(0, 0), 514), m).specs

\* C4: the content of cpu_specs after cpu_specs_init() is a function of the
\* hardware answers of that call only: it equals what the pass yields from
\* any other prior contents, here the initial ones, on the same answers.
C4_WholesaleOverwrite ==
  (last.op = "cpu_specs_init" /\ last.fault = "none") => cpu_specs = FreshPass(last.hw)

(***************************************************************************)
(* The decode rules on their own: one rule of one decoder applied to an    *)
(* instruction bitset and a register block drawn from samples that hold    *)
(* every flag both set and clear and every probed bit both 0 and 1.        *)
(***************************************************************************)
MaxDecodes == 1

BitsetSamples ==
  {0, Or(SSE1, SSE2), (2^18) - 1, AVX512F + TBM + LZCNT, -1, MinS32 + BMI1}

OutSamples ==
  { Zeros, Regs(-1, -1, -1, -1),
    Regs(1431655765, 1431655765, 1431655765, 1431655765),
    Regs(-1431655766, -1431655766, -1431655766, -1431655766),
    Regs(64, 832, 0, 0) }

DecodeInit ==
  /\ isa = "x64"
  /\ hw \in {m \in Machines : ~m.avail}
  /\ eflags = 514
  /\ cpu_specs \in {[cpu_specs_initializer(isa) EXCEPT !.instructions = b] : b \in BitsetSamples}
  /\ below = Level(0, 0)
  /\ cpu_identity = cpu_identity_initial
  /\ last = [op |-> "none", rule |-> <<EAX, 0, 0>>, out |-> Zeros, pre |-> 0]
  /\ streak = 0
  /\ calls = 0
  /\ changes = 0
  /\ threads = NoThreads

\* one rule of a table applied to cpu_specs.instructions
Decode(rules) ==
  /\ calls < MaxDecodes
  /\ \E i \in 1..Len(rules), out \in OutSamples :
       /\ cpu_specs' = [cpu_specs EXCEPT !.instructions =
                          update_inst_availability(@, out[rules[i][1]], rules[i][2], rules[i][3])]
       /\ last' = [op |-> "decode", rule |-> rules[i], out |-> out,
                   pre |-> cpu_specs.instructions]
  /\ calls' = calls + 1
  /\ UNCHANGED <<threads, isa, hw, eflags, below, cpu_identity, streak, changes>>

DecodeCommon == Decode(Leaf1Rules \o Leaf7Rules \o ExtLeaf1Rules)

DecodeAmd == Decode(AmdExtLeaf1Rules)

DecodeIntel == Decode(IntelLeaf7Rules)

\* the AVX512F update of cpu_specs_amd_get_instructions
DecodeAmdAvx512 ==
  /\ calls < MaxDecodes
  /\ \E out \in OutSamples :
       /\ cpu_specs' = [cpu_specs EXCEPT !.instructions = amd_avx512_update(@, out)]
       /\ last' = [op |-> "decode_avx512", rule |-> <<EAX, 0, AVX512F>>, out |-> out,
                   pre |-> cpu_specs.instructions]
  /\ calls' = calls + 1
  /\ UNCHANGED <<threads, isa, hw, eflags, below, cpu_identity, streak, changes>>

\* leaf 1 EAX values: every case of the base family, with and without the
\* extended fields, and with the reserved bits set
EaxSamples ==
  { Fms(t[1], t[2], f, xm, xf) + t[3] :
      t \in {<<2, 4, 0>>, <<15, 14, MinS32 + (2^14)>>},
      f \in {5, 6, 15}, xm \in {0, 9}, xf \in {0, 2} }

VendorSamples == {CPU_MANUFACTURER_AMD, CPU_MANUFACTURER_INTEL, Signature("Other").c}

\* the family, model and stepping stores of cpu_identity_init()
DecodeSignature ==
  /\ calls < MaxDecodes
  /\ \E eax \in EaxSamples, vendor \in VendorSamples :
       LET fms == family_model_stepping(eax, vendor)
       IN  /\ cpu_identity' = [cpu_identity EXCEPT !.family = fms.family,
                                                    !.model = fms.model,
                                                    !.stepping = fms.stepping]
           /\ last' = [op |-> "family_model_stepping", eax |-> eax, vendor |-> vendor]
  /\ calls' = calls + 1
  /\ UNCHANGED <<threads, isa, hw, eflags, cpu_specs, below, streak, changes>>

DecodeNext ==
  DecodeCommon \/ DecodeAmd \/ DecodeIntel \/ DecodeAmdAvx512 \/ DecodeSignature

DecodeSpec == DecodeInit /\ [][DecodeNext]_vars

\* the hardware bit the last rule applied has probed
ProbedBit ==
  IF last.op = "decode_avx512"
  THEN (IF last.out[EAX] = 64 /\ last.out[EBX] = 832 THEN 1 ELSE 0)
  ELSE (last.out[last.rule[1]] \div (2^(last.rule[2]))) % 2

\* C5: applying the decode rule of flag F to any bitset yields a bitset whose
\* F bit equals the probed hardware bit and whose every other bit is as
\* before, for the rules of the common, the AMD and the Intel decoders.
C5_SetOrClear ==
  last.op \in {"decode", "decode_avx512"} =>
    \A k \in 0..31 :
      Bit(cpu_specs.instructions, k) =
        IF k < 31 /\ 2^k = last.rule[3] THEN ProbedBit ELSE Bit(last.pre, k)

C5_Witness ==
  /\ last.op = "decode"
  /\ last.rule = <<EBX, 5, AVX2>>
  /\ ProbedBit = 0
  /\ last.pre = (2^18) - 1
  /\ cpu_specs.instructions = ((2^18) - 1) - AVX2

\* the flags of the first n leaf 1 rules whose hardware bit is 1
RECURSIVE Leaf1Flags(_, _)
Leaf1Flags(out, n) ==
  IF n = 0 THEN 0
  ELSE Leaf1Flags(out, n - 1)
         + (IF (out[Leaf1Rules[n][1]] \div (2^(Leaf1Rules[n][2]))) % 2 = 1
            THEN Leaf1Rules[n][3] ELSE 0)

UnknownVendorCase ==
  /\ last.op = "cpu_specs_init"
  /\ last.avail
  /\ VendorWord(last.hw) \notin {CPU_MANUFACTURER_AMD, CPU_MANUFACTURER_INTEL}
  /\ MaxStandardLeaf(last.hw) = 1
  /\ MaxExtendedLeaf(last.hw) = 0

\* C6: after cpu_specs_init() on an unknown vendor with max_standard_leaf = 1
\* and max_extended_leaf = 0, the cache levels, cache_line_size,
\* threads_per_core and core_count equal the Defaults Provider values and the
\* instruction flags are exactly the leaf 1 flags whose hardware bit is 1.
C6_UnknownVendor ==
  UnknownVendorCase =>
    /\ cpu_specs.cache_level_specs = cpu_specs_set_defaults.cache_level_specs
    /\ cpu_specs.cache_line_size = cpu_specs_set_defaults.cache_line_size
    /\ cpu_specs.threads_per_core = cpu_specs_set_defaults.threads_per_core
    /\ cpu_specs.core_count = cpu_specs_set_defaults.core_count
    /\ cpu_specs.instructions = Leaf1Flags(Answer(last.hw, 1, 0), Len(Leaf1Rules))

\* C7: after a cpu_specs_init() pass on either vendor pipeline, every cache
\* level the pass wrote has attached_core_count <= core_count.
C7_AttachedWithinCoreCount ==
  (last.op = "cpu_specs_init" /\ last.fault = "none") =>
    \A idx \in last.widx \cap (0..(CACHE_LEVEL_COUNT - 1)) :
      cpu_specs.cache_level_specs[idx].attached_core_count <= cpu_specs.core_count

\* the low 16 bits of EBX of a subleaf of the topology leaf the pipeline asks
TopologyLeaf(m) ==
  IF VendorWord(m) = CPU_MANUFACTURER_INTEL /\ UGe(MaxStandardLeaf(m), 31) THEN 31 ELSE 11

TopologyField(m, sub) == Answer(m, TopologyLeaf(m), sub)[EBX] % 65536

\* C8: on the AMD and the Intel pipeline with max_standard_leaf >= 0xB,
\* threads_per_core is the low 16 bits of EBX of subleaf 0 and core_count the
\* low 16 bits of EBX of subleaf 1 divided by it, of leaf 0x1F on Intel with
\* max_standard_leaf >= 0x1F and of leaf 0xB otherwise.
C8_TopologyArithmetic ==
  ( /\ last.op = "cpu_specs_init"
    /\ last.avail
    /\ VendorWord(last.hw) \in {CPU_MANUFACTURER_AMD, CPU_MANUFACTURER_INTEL}
    /\ UGe(MaxStandardLeaf(last.hw), 11) ) =>
      /\ cpu_specs.threads_per_core = TopologyField(last.hw, 0)
      /\ last.fault = "none" =>
           /\ TopologyField(last.hw, 0) # 0
           /\ cpu_specs.core_count = TopologyField(last.hw, 1) \div TopologyField(last.hw, 0)

C8_Witness ==
  /\ last.op = "cpu_specs_init"
  /\ last.avail
  /\ last.fault = "none"
  /\ VendorWord(last.hw) = CPU_MANUFACTURER_AMD
  /\ UGe(MaxStandardLeaf(last.hw), 11)
  /\ TopologyField(last.hw, 0) = 2
  /\ TopologyField(last.hw, 1) = 8
  /\ cpu_specs.threads_per_core = 2
  /\ cpu_specs.core_count = 4

\* byte j (0 the lowest) of the 32-bit word w
ByteOfWord(w, j) == (w \div (256^j)) % 256

\* C9: after cpu_identity_init() with CPUID available the 12 manufacturer
\* bytes are the bytes of leaf 0 EBX, then EDX, then ECX, and the bytes after
\* them are not touched by these stores: they keep their prior contents, or
\* hold the bytes of the three processor name leaves when those were read.
C9_ManufacturerBytes ==
  (last.op = "cpu_identity_init" /\ last.avail) =>
    LET out0 == Answer(last.hw, 0, 0)
    IN  /\ \A j \in 0..3 :
             /\ cpu_identity.chars[j] % 256 = ByteOfWord(out0[EBX], j)
             /\ cpu_identity.chars[4 + j] % 256 = ByteOfWord(out0[EDX], j)
             /\ cpu_identity.chars[8 + j] % 256 = ByteOfWord(out0[ECX], j)
        /\ \A i \in 0..(NameSize - 1) :
             cpu_identity.chars[ManufacturerSize + i] % 256 =
               IF UGe(MaxExtendedLeaf(last.hw), X80000000 + 4)
               THEN ByteOfWord(Answer(last.hw, X80000000 + 2 + (i \div 16), 0)[(i % 16) \div 4],
                               i % 4)
               ELSE last.pre_identity.chars[ManufacturerSize + i] % 256

C9_Witness ==
  /\ last.op = "cpu_identity_init"
  /\ last.avail
  /\ ~UGe(MaxExtendedLeaf(last.hw), X80000000 + 4)
  /\ manufacturer(cpu_identity) =
       [i \in 0..11 |-> <<65, 117, 116, 104, 101, 110, 116, 105, 99, 65, 77, 68>>[i + 1]]
  /\ cpu_identity.chars[ManufacturerSize] = 85

\* C10: stepping is bits 0-3 of leaf 1 EAX; family is bits 8-11, plus bits
\* 20-27 exactly when bits 8-11 are 0xF; model is bits 4-7, with bits 16-19
\* as its upper nibble exactly when the base family is 0xF or the vendor is
\* Intel and the base family is 6.
C10_FamilyModelStepping ==
  last.op = "family_model_stepping" =>
    LET Field(lo, width) == (last.eax \div (2^lo)) % (2^width)
        base == Field(8, 4)
    IN  /\ cpu_identity.stepping = Field(0, 4)
        /\ cpu_identity.family = IF base = 15 THEN 15 + Field(20, 8) ELSE base
        /\ cpu_identity.model =
             IF base = 15 \/ (last.vendor = CPU_MANUFACTURER_INTEL /\ base = 6)
             THEN Field(4, 4) + (16 * Field(16, 4))
             ELSE Field(4, 4)

C10_Witness ==
  /\ last.op = "family_model_stepping"
  /\ (last.eax \div 256) % 16 = 15
  /\ (last.eax \div 1048576) % 256 = 2
  /\ (last.eax \div 65536) % 16 = 9
  /\ cpu_identity.family = 17
  /\ cpu_identity.model = 158

\* the u32 value of a word is that of its two unsigned 16-bit halves
SameU32(a, b) == Hi(a) = Hi(b) /\ Lo(a) = Lo(b)

\* C11: cpuid_ctx_get() returns {0, 0} and issues no leaf query when the
\* probe is false; otherwise it returns EAX of leaf 0 and EAX of leaf
\* 0x80000000 as u32 values; in both cases cpu_specs and cpu_identity are
\* left as they were.
C11_ContextReturned ==
  last.op = "cpuid_ctx_get" =>
    /\ cpu_specs = last.pre_specs
    /\ cpu_identity = last.pre_identity
    /\ ~last.avail => /\ last.ret = [max_standard_func |-> 0, max_extended_func |-> 0]
                      /\ LeafQueries(last.log) = {}
    /\ last.avail => /\ SameU32(last.ret.max_standard_func, last.hw.regs[<<0, 0>>][EAX])
                     /\ SameU32(last.ret.max_extended_func,
                                last.hw.regs[<<X80000000, 0>>][EAX])

C11_Witness ==
  /\ last.op = "cpuid_ctx_get"
  /\ last.avail
  /\ last.ret.max_standard_func = 11
  /\ Hi(last.ret.max_extended_func) = 32768
  /\ Lo(last.ret.max_extended_func) = 29
  /\ last.pre_specs # cpu_specs_initializer(isa)
  /\ cpu_specs = last.pre_specs

\* C12: with the flag register a word changed only by __writeeflags, after
\* cpuid_is_available() has returned the register holds the value it held
\* before the call, and the probe returned true exactly when the value read
\* back after the write was the toggled value.
C12_FlagRegisterRestored ==
  last.op # "none" =>
    /\ eflags = last.pre_eflags
    /\ last.avail <=> (eflags = Xor(last.pre_eflags, 2^21))

\* C13: before any detection pass cpu_specs holds L1 = 4 KiB with 1 attached
\* core, L2 and L3 = 0 with 0 attached cores, cache_line_size = 64,
\* threads_per_core = 1, core_count = 1 and cpu_identity has family, model and
\* stepping 0; the instruction flags are 0 on an x86 build and SSE1 | SSE2 on
\* an x64 build.
C13_BaselineBeforeAnyPass ==
  last.passes = 0 =>
    /\ cpu_specs = [cpu_specs_set_defaults EXCEPT
                      !.instructions = IF isa = "x64" THEN SSE1 + SSE2 ELSE 0]
    /\ cpu_identity.family = 0
    /\ cpu_identity.model = 0
    /\ cpu_identity.stepping = 0

C13_Witness ==
  /\ last.passes = 0
  /\ last.op = "cpuid_ctx_get"
  /\ isa = "x64"
  /\ cpu_specs.cache_level_specs[L1] = Level(4096, 1)
  /\ cpu_specs.instructions = 3

\* C13 as stated: the instruction flags are 0 on every build target.
C13_NoFlagOnAnyTarget ==
  last.passes = 0 =>
    /\ cpu_specs = cpu_specs_set_defaults
    /\ cpu_identity.family = 0
    /\ cpu_identity.model = 0
    /\ cpu_identity.stepping = 0

(***************************************************************************)
(* Two concurrent callers of cpu_specs_init().  Each thread runs its pass  *)
(* on the answers of the processor it runs on.  cpu_specs is shared; the   *)
(* local copy of cpu_specs.instructions a thread works on is its seen      *)
(* value.  The topology and cache decoders are taken one call at a time    *)
(* and the updates of cpu_specs.instructions one load or store at a time:  *)
(* every interleaving here is an interleaving of the individual accesses.  *)
(***************************************************************************)
Threads == {1, 2}

RaceMachines == {m \in Machines : m.prof = "A" \/ ~m.avail}

RaceInit ==
  /\ isa \in {"x64", "x86"}
  /\ hw \in {m \in Machines : ~m.avail}
  /\ eflags = 514
  /\ cpu_specs = cpu_specs_initializer(isa)
  /\ below = Level(0, 0)
  /\ cpu_identity = cpu_identity_initial
  /\ last = [op |-> "none"]
  /\ streak = 0
  /\ calls = 0
  /\ changes = 0
  /\ threads \in {[pc |-> <<"idle", "idle">>, hw |-> <<a, b>>, seen |-> <<0, 0>>,
                   overlap |-> FALSE, fault |-> "none"] :
                    a \in RaceMachines, b \in RaceMachines}

\* thread u is inside its pass
Busy(u) == threads.pc[u] \notin {"idle", "done"}

\* thread t has taken one more step of its pass
RaceStep(t, specs, bel, seen, fault, pc) ==
  /\ cpu_specs' = specs
  /\ below' = bel
  /\ threads' = [threads EXCEPT !.pc[t] = pc, !.seen[t] = seen, !.fault = fault,
                                !.overlap = @ \/ Busy(3 - t)]
  /\ UNCHANGED <<isa, hw, eflags, cpu_identity, last, streak, calls, changes>>

\* the vendor branch of cpu_specs_init() is entered on machine m
HasVendorPipeline(m) ==
  m.avail /\ Answer(m, 0, 0)[ECX] \in {CPU_MANUFACTURER_AMD, CPU_MANUFACTURER_INTEL}

\* the probe, the context queries, and the load of cpu_specs.instructions into
\* the local of cpu_specs_get_common_instructions()
RaceEnter(t) ==
  /\ threads.fault = "none"
  /\ threads.pc[t] = "idle"
  /\ \E m \in {threads.hw[t]} :
       IF cpuid_is_available(m, 514).ret
       THEN RaceStep(t, cpu_specs, below, cpu_specs.instructions, "none", "entered")
       ELSE RaceStep(t, cpu_specs, below, threads.seen[t], "none", "done")

\* the store that ends cpu_specs_get_common_instructions()
RaceCommon(t) ==
  /\ threads.fault = "none"
  /\ threads.pc[t] = "entered"
  /\ \E m \in {threads.hw[t]} :
       \E r \in { cpu_specs_get_common_instructions(
                    NewCall([cpu_specs EXCEPT !.instructions = threads.seen[t]], below, 514),
                    read_cpuid_ctx(m), m) } :
         RaceStep(t, [cpu_specs EXCEPT !.instructions = r.specs.instructions], below,
                  r.specs.instructions, "none",
                  IF HasVendorPipeline(m) THEN "common" ELSE "done")

\* cpu_specs_amd_get_cores_info() or cpu_specs_intel_get_cores_info()
RaceCores(t) ==
  /\ threads.fault = "none"
  /\ threads.pc[t] = "common"
  /\ \E m \in {threads.hw[t]} :
       \E r \in { IF Answer(m, 0, 0)[ECX] = CPU_MANUFACTURER_AMD
                  THEN cpu_specs_amd_get_cores_info(
                         NewCall(cpu_specs, below, 514), read_cpuid_ctx(m), m)
                  ELSE cpu_specs_intel_get_cores_info(
                         NewCall(cpu_specs, below, 514), read_cpuid_ctx(m), m) } :
         RaceStep(t, r.specs, r.below, threads.seen[t], r.fault, "cores")

\* cpu_specs_amd_get_caches_info() or cpu_specs_intel_get_caches_info()
RaceCaches(t) ==
  /\ threads.fault = "none"
  /\ threads.pc[t] = "cores"
  /\ \E m \in {threads.hw[t]} :
       \E r \in { IF Answer(m, 0, 0)[ECX] = CPU_MANUFACTURER_AMD
                  THEN cpu_specs_amd_get_caches_info(
                         NewCall(cpu_specs, below, 514), read_cpuid_ctx(m), m)
                  ELSE cpu_specs_intel_get_caches_info(
                         NewCall(cpu_specs, below, 514), read_cpuid_ctx(m), m) } :
         RaceStep(t, r.specs, r.below, threads.seen[t], r.fault, "caches")

\* the AVX512F update that opens cpu_specs_amd_get_instructions(), a
\* compound assignment on cpu_specs.instructions
RaceAvx512(t) ==
  /\ threads.fault = "none"
  /\ threads.pc[t] = "caches"
  /\ \E m \in {threads.hw[t]} :
       /\ Answer(m, 0, 0)[ECX] = CPU_MANUFACTURER_AMD
       /\ \E i \in { IF UGe(read_cpuid_ctx(m).max_standard_func, 11)
                     THEN amd_avx512_update(cpu_specs.instructions, Answer(m, 13, 5))
                     ELSE cpu_specs.instructions } :
            RaceStep(t, [cpu_specs EXCEPT !.instructions = i], below, threads.seen[t],
                     "none", "avx512")

\* the load of cpu_specs.instructions that the last update of the vendor
\* instruction decoder works on
RaceLoad(t) ==
  /\ threads.fault = "none"
  /\ \E m \in {threads.hw[t]} :
       threads.pc[t] = (IF Answer(m, 0, 0)[ECX] = CPU_MANUFACTURER_AMD
                        THEN "avx512" ELSE "caches")
  /\ RaceStep(t, cpu_specs, below, cpu_specs.instructions, "none", "loaded")

\* the store of the last update of the vendor instruction decoder
RaceInstructions(t) ==
  /\ threads.fault = "none"
  /\ threads.pc[t] = "loaded"
  /\ \E m \in {threads.hw[t]} :
       \E i \in { IF Answer(m, 0, 0)[ECX] = CPU_MANUFACTURER_AMD
                  THEN IF UGe(read_cpuid_ctx(m).max_extended_func, 11)
                       THEN ApplyRules(threads.seen[t], Answer(m, X80000000 + 1, 0),
                                       AmdExtLeaf1Rules, 1)
                       ELSE cpu_specs.instructions
                  ELSE IF UGe(read_cpuid_ctx(m).max_standard_func, 7)
                       THEN ApplyRules(threads.seen[t], Answer(m, 7, 0), IntelLeaf7Rules, 1)
                       ELSE cpu_specs.instructions } :
         RaceStep(t, [cpu_specs EXCEPT !.instructions = i], below, i, "none", "done")

RaceNext ==
  \E t \in Threads :
    \/ RaceEnter(t)
    \/ RaceCommon(t)
    \/ RaceCores(t)
    \/ RaceCaches(t)
    \/ RaceAvx512(t)
    \/ RaceLoad(t)
    \/ RaceInstructions(t)

RaceSpec == RaceInit /\ [][RaceNext]_vars

\* cpu_specs after the pass on a and then the pass on b, one after the other
SequentialProfile(a, b) ==
  cpu_specs_init(NewCall(cpu_specs_init(NewCall(cpu_specs_initializer(isa), Level(0, 0), 514),
                                        a).specs,
                         Level(0, 0), 514), b).specs

BothDone == threads.pc = <<"done", "done">> /\ threads.fault = "none"

\* C14: a detection pass is not atomic.  Two cpu_specs_init() calls that do
\* not interleave leave the profile of the two passes made one after the
\* other; two calls that interleave need not (C14_Witness is a state, after
\* both calls have finished, that no sequential order of the passes and no
\* single pass produces).
C14_SequentialUnlessInterleaved ==
  (BothDone /\ ~threads.overlap) =>
    cpu_specs \in { SequentialProfile(threads.hw[1], threads.hw[2]),
                    SequentialProfile(threads.hw[2], threads.hw[1]) }

C14_Witness ==
  /\ BothDone
  /\ threads.overlap
  /\ threads.hw[1] = threads.hw[2]
  /\ cpu_specs # FreshPass(threads.hw[1])
  /\ cpu_specs # SequentialProfile(threads.hw[1], threads.hw[2])


(***************************************************************************)
(* The functions a pass has called, read from the trace of the call.       *)
(***************************************************************************)
Called(log, f) == \E i \in 1..Len(log) : log[i][1] = "call" /\ log[i][2] = f

\* the position of the call of f in the trace, 0 when f was not called
CallIndex(log, f) ==
  IF Called(log, f)
  THEN CHOOSE i \in 1..Len(log) : log[i][1] = "call" /\ log[i][2] = f
  ELSE 0

AmdDecoders == {"cpu_specs_amd_get_cores_info", "cpu_specs_amd_get_caches_info",
                "cpu_specs_amd_get_instructions"}

IntelDecoders == {"cpu_specs_intel_get_cores_info", "cpu_specs_intel_get_caches_info",
                  "cpu_specs_intel_get_instructions"}

\* the three signature registers of leaf 0, in the order EBX, EDX, ECX
SignatureOf(m) == <<Answer(m, 0, 0)[EBX], Answer(m, 0, 0)[EDX], Answer(m, 0, 0)[ECX]>>

SignatureIs(m, v) == SignatureOf(m) = <<Signature(v).b, Signature(v).d, Signature(v).c>>

\* C15 (as amended): in a cpu_specs_init() pass with CPUID available, the AMD
\* pipeline runs exactly when ECX of leaf 0, the last word of the vendor
\* signature, equals CPU_MANUFACTURER_AMD, the Intel pipeline exactly when it
\* equals CPU_MANUFACTURER_INTEL; never both; any other word runs no vendor
\* sub-decoder.  EBX and EDX of the signature are not compared.
C15_DispatchOnSignatureWord ==
  (last.op = "cpu_specs_init" /\ last.avail) =>
    /\ Called(last.log, "cpu_specs_amd_get_cores_info")
         <=> (VendorWord(last.hw) = CPU_MANUFACTURER_AMD)
    /\ Called(last.log, "cpu_specs_intel_get_cores_info")
         <=> (VendorWord(last.hw) = CPU_MANUFACTURER_INTEL)
    /\ ~(  (\E f \in AmdDecoders : Called(last.log, f))
        /\ (\E f \in IntelDecoders : Called(last.log, f)))
    /\ VendorWord(last.hw) \notin {CPU_MANUFACTURER_AMD, CPU_MANUFACTURER_INTEL}
         => ~(\E f \in AmdDecoders \cup IntelDecoders : Called(last.log, f))

C15_Witness ==
  /\ last.op = "cpu_specs_init"
  /\ last.avail
  /\ last.fault = "none"
  /\ \A f \in AmdDecoders : Called(last.log, f)
  /\ VendorWord(last.hw) = CPU_MANUFACTURER_AMD
  /\ ~SignatureIs(last.hw, "AMD")

\* C15 as stated: the pipeline that runs is decided by the three signature
\* registers EBX, EDX, ECX of leaf 0.
C15_DispatchOnSignature ==
  (last.op = "cpu_specs_init" /\ last.avail) =>
    /\ Called(last.log, "cpu_specs_amd_get_cores_info") <=> SignatureIs(last.hw, "AMD")
    /\ Called(last.log, "cpu_specs_intel_get_cores_info") <=> SignatureIs(last.hw, "Intel")
    /\ ~(  (\E f \in AmdDecoders : Called(last.log, f))
        /\ (\E f \in IntelDecoders : Called(last.log, f)))
    /\ (~SignatureIs(last.hw, "AMD") /\ ~SignatureIs(last.hw, "Intel"))
         => ~(\E f \in AmdDecoders \cup IntelDecoders : Called(last.log, f))


\* the cache levels the vendor's cache decoder leaves when it starts from the
\* profile before the pass with the topology fields as the pass left them
CachesAfterTopology ==
  LET t == NewCall([last.pre_specs EXCEPT !.threads_per_core = cpu_specs.threads_per_core,
                                          !.core_count = cpu_specs.core_count],
                   Level(0, 0), 514)
  IN  IF VendorWord(last.hw) = CPU_MANUFACTURER_AMD
      THEN cpu_specs_amd_get_caches_info(t, read_cpuid_ctx(last.hw), last.hw)
             .specs.cache_level_specs
      ELSE cpu_specs_intel_get_caches_info(t, read_cpuid_ctx(last.hw), last.hw)
             .specs.cache_level_specs

\* the decoders of the pipeline the last pass selected, in the stated order
PipelineOrder ==
  IF VendorWord(last.hw) = CPU_MANUFACTURER_AMD
  THEN <<"cpu_specs_get_common_instructions", "cpu_specs_amd_get_cores_info",
         "cpu_specs_amd_get_caches_info", "cpu_specs_amd_get_instructions">>
  ELSE <<"cpu_specs_get_common_instructions", "cpu_specs_intel_get_cores_info",
         "cpu_specs_intel_get_caches_info", "cpu_specs_intel_get_instructions">>

\* C16: in every pass that selects a vendor pipeline the common instruction
\* decoder is called first, then the vendor's topology decoder, then its cache
\* decoder, then its vendor-exclusive instruction decoder; so the cache levels
\* the pass leaves are those the cache decoder computes from the
\* threads_per_core and core_count the topology decoder of the same pass left
\* (written, or untouched where it wrote nothing).
C16_PipelineOrder ==
  (/\ last.op = "cpu_specs_init"
   /\ last.avail
   /\ VendorWord(last.hw) \in {CPU_MANUFACTURER_AMD, CPU_MANUFACTURER_INTEL}) =>
    /\ CallIndex(last.log, PipelineOrder[1]) > 0
    /\ CallIndex(last.log, PipelineOrder[2]) > CallIndex(last.log, PipelineOrder[1])
    /\ \A k \in 3..4 :
         Called(last.log, PipelineOrder[k]) =>
           CallIndex(last.log, PipelineOrder[k]) > CallIndex(last.log, PipelineOrder[k - 1])
    /\ last.fault = "none" =>
         /\ \A k \in 1..4 : Called(last.log, PipelineOrder[k])
         /\ cpu_specs.cache_level_specs = CachesAfterTopology

C16_Witness ==
  /\ last.op = "cpu_specs_init"
  /\ last.avail
  /\ last.fault = "none"
  /\ VendorWord(last.hw) = CPU_MANUFACTURER_INTEL
  /\ \A k \in 1..3 :
       0 < CallIndex(last.log, PipelineOrder[k])
       /\ CallIndex(last.log, PipelineOrder[k]) < CallIndex(last.log, PipelineOrder[k + 1])
  /\ cpu_specs.core_count # last.pre_specs.core_count
  /\ cpu_specs.threads_per_core # last.pre_specs.threads_per_core
  /\ cpu_specs.cache_level_specs[L3].attached_core_count = cpu_specs.core_count
  /\ cpu_specs.cache_level_specs[L3] # last.pre_specs.cache_level_specs[L3]


\* the pass has queried the leaf
Queried(log, leaf) == \E i \in 1..Len(log) : log[i][1] = "cpuid" /\ log[i][2] = leaf

\* bit 22 of ECX of leaf 0x80000001
TopologyExtensions(m) == And(Shr(Answer(m, X80000000 + 1, 0)[ECX], 22), 1) = 1

\* C17: the AMD cache decoder enumerates leaf 0x8000001D exactly when
\* max_extended_leaf >= 0x8000001D and the topology-extensions bit is set; in
\* every other case it reads leaf 0x80000005 when max_extended_leaf >=
\* 0x80000005 and leaf 0x80000006 when max_extended_leaf >= 0x80000006.
C17_AmdCacheSource ==
  (last.op = "cpu_specs_init" /\ Called(last.log, "cpu_specs_amd_get_caches_info")) =>
    LET enumerate == UGe(MaxExtendedLeaf(last.hw), X80000000 + 29)
                       /\ TopologyExtensions(last.hw)
    IN  /\ Queried(last.log, X80000000 + 29) <=> enumerate
        /\ ~enumerate =>
             /\ Queried(last.log, X80000000 + 5)
                  <=> UGe(MaxExtendedLeaf(last.hw), X80000000 + 5)
             /\ Queried(last.log, X80000000 + 6)
                  <=> UGe(MaxExtendedLeaf(last.hw), X80000000 + 6)


\* bit n of a register value
RegBit(v, n) == (v \div (2^n)) % 2

\* C18: AMD legacy topology (max_standard_leaf < 0xB).  With b = bit 28 of
\* EDX of leaf 1, threads_per_core = b + 1.  If max_extended_leaf >=
\* 0x80000008, core_count = ((ECX of leaf 0x80000008 & 0xFF) + 1) >> b.
\* Otherwise, if b = 1, the candidate ((EBX of leaf 1 >> 16) & 0xFF) >> 1 is
\* stored when max_extended_leaf < 0x80000001 or when bit 1 of ECX of leaf
\* 0x80000001 is set, and core_count is not written when that bit is clear;
\* if b = 0 core_count is not written.
C18_AmdLegacyTopology ==
  (/\ last.op = "cpu_specs_init"
   /\ Called(last.log, "cpu_specs_amd_get_cores_info")
   /\ ~UGe(MaxStandardLeaf(last.hw), 11)) =>
    LET b         == RegBit(Answer(last.hw, 1, 0)[EDX], 28)
        total     == (Answer(last.hw, X80000000 + 8, 0)[ECX] % 256) + 1
        candidate == ((Answer(last.hw, 1, 0)[EBX] \div 65536) % 256) \div 2
        confirmed == RegBit(Answer(last.hw, X80000000 + 1, 0)[ECX], 1) = 1
    IN  /\ cpu_specs.threads_per_core = b + 1
        /\ cpu_specs.core_count =
             IF UGe(MaxExtendedLeaf(last.hw), X80000000 + 8) THEN total \div (2^b)
             ELSE IF b = 1 /\ ~UGe(MaxExtendedLeaf(last.hw), X80000000 + 1) THEN candidate
             ELSE IF b = 1 /\ confirmed THEN candidate
             ELSE last.pre_specs.core_count

C18_Witness ==
  /\ last.op = "cpu_specs_init"
  /\ Called(last.log, "cpu_specs_amd_get_cores_info")
  /\ ~UGe(MaxStandardLeaf(last.hw), 11)
  /\ ~UGe(MaxExtendedLeaf(last.hw), X80000000 + 8)
  /\ UGe(MaxExtendedLeaf(last.hw), X80000000 + 1)
  /\ RegBit(Answer(last.hw, 1, 0)[EDX], 28) = 1
  /\ RegBit(Answer(last.hw, X80000000 + 1, 0)[ECX], 1) = 0
  /\ cpu_specs.threads_per_core = 2
  /\ cpu_specs.core_count = last.pre_specs.core_count
  /\ cpu_specs.core_count # ((Answer(last.hw, 1, 0)[EBX] \div 65536) % 256) \div 2


\* the pass has read the AMD fallback leaf 0x80000006
AmdFallbackL3 ==
  /\ last.op = "cpu_specs_init"
  /\ Called(last.log, "cpu_specs_amd_get_caches_info")
  /\ Queried(last.log, X80000000 + 6)

\* EDX[31:18] of leaf 0x80000006
L3Field(m) == (Answer(m, X80000000 + 6, 0)[EDX] \div (2^18)) % (2^14)

\* C19: for every EDX of leaf 0x80000006, bit 31 set or not, the L3
\* data_cache_size stored by the AMD fallback equals EDX[31:18] * 512 KiB, not
\* wrapped and so not negative; and every data_cache_size stored by a cache
\* decoder is >= 0.
C19_FallbackL3Size ==
  /\ AmdFallbackL3 =>
       /\ cpu_specs.cache_level_specs[L3].data_cache_size >= 0
       /\ cpu_specs.cache_level_specs[L3].data_cache_size % (512 * 1024) = 0
       /\ cpu_specs.cache_level_specs[L3].data_cache_size \div (512 * 1024) = L3Field(last.hw)
  /\ last.op = "cpu_specs_init" =>
       /\ \A idx \in last.widx \cap (0..(CACHE_LEVEL_COUNT - 1)) :
            cpu_specs.cache_level_specs[idx].data_cache_size >= 0
       /\ -1 \in last.widx => below.data_cache_size >= 0


\* cpu_specs.instructions as the common decoder of the last pass left it,
\* which is what the vendor instruction decoder started from
InstructionsAfterCommon ==
  cpu_specs_get_common_instructions(NewCall(last.pre_specs, Level(0, 0), 514),
                                    read_cpuid_ctx(last.hw), last.hw).specs.instructions

\* flag f is set in the bitset
Has(instructions, f) == And(instructions, f) # 0

\* C20: the AMD instruction decoder sets TBM to bit 21 of ECX of leaf
\* 0x80000001 exactly when max_extended_leaf >= 0xB and leaves it alone
\* otherwise; it updates AVX512F only when max_standard_leaf >= 0xB, to 1
\* exactly when leaf 0xD subleaf 5 returns EAX = 0x40 and EBX = 0x340 and to
\* 0 otherwise; it changes no other flag.
C20_AmdExclusiveFlags ==
  (last.op = "cpu_specs_init" /\ last.fault = "none"
     /\ Called(last.log, "cpu_specs_amd_get_instructions")) =>
    /\ Has(cpu_specs.instructions, TBM) <=>
         IF UGe(MaxExtendedLeaf(last.hw), 11)
         THEN RegBit(Answer(last.hw, X80000000 + 1, 0)[ECX], 21) = 1
         ELSE Has(InstructionsAfterCommon, TBM)
    /\ Queried(last.log, 13) <=> UGe(MaxStandardLeaf(last.hw), 11)
    /\ Has(cpu_specs.instructions, AVX512F) <=>
         IF UGe(MaxStandardLeaf(last.hw), 11)
         THEN Answer(last.hw, 13, 5)[EAX] = 64 /\ Answer(last.hw, 13, 5)[EBX] = 832
         ELSE Has(InstructionsAfterCommon, AVX512F)
    /\ And(cpu_specs.instructions, Xor(-1, TBM + AVX512F))
         = And(InstructionsAfterCommon, Xor(-1, TBM + AVX512F))

C20_Witness ==
  /\ last.op = "cpu_specs_init"
  /\ last.fault = "none"
  /\ Called(last.log, "cpu_specs_amd_get_instructions")
  /\ ~UGe(MaxExtendedLeaf(last.hw), 11)
  /\ ~UGe(MaxStandardLeaf(last.hw), 11)
  /\ RegBit(Answer(last.hw, X80000000 + 1, 0)[ECX], 21) = 1
  /\ Answer(last.hw, 13, 5)[EAX] = 64 /\ Answer(last.hw, 13, 5)[EBX] = 832
  /\ ~Has(cpu_specs.instructions, TBM)
  /\ ~Has(cpu_specs.instructions, AVX512F)
  /\ cpu_specs.instructions = InstructionsAfterCommon


\* the 48 name bytes of the static initializer of cpu_identity
DefaultName == [i \in 0..(NameSize - 1) |-> cpu_identity_initializer.name[i + 1]]

\* C21: cpu_identity_init() writes the 48 name bytes from the register blocks
\* of leaves 0x80000002, 0x80000003, 0x80000004, at offsets 0, 16, 32, exactly
\* when max_extended_leaf >= 0x80000004; in every other case the name holds
\* its default value after the call, also when an earlier pass had filled it.
C21_ProcessorName ==
  last.op = "cpu_identity_init" =>
    IF last.avail /\ UGe(MaxExtendedLeaf(last.hw), X80000000 + 4)
    THEN \A i \in 0..(NameSize - 1) :
           name(cpu_identity)[i] % 256 =
             ByteOfWord(Answer(last.hw, X80000000 + 2 + (i \div 16), 0)[(i % 16) \div 4],
                        i % 4)
    ELSE name(cpu_identity) = DefaultName


\* C22: every write to cache_level_specs made by the AMD leaf 0x8000001D
\* enumeration and by the Intel leaf 4 enumeration uses an index in {0, 1, 2};
\* a data or unified cache descriptor whose level field reads 0 causes no write
\* at index -1.
C22_CacheIndexInBounds ==
  last.op = "cpu_specs_init" => last.widx \subseteq 0..(CACHE_LEVEL_COUNT - 1)


\* C23: threads_per_core is >= 1 wherever a detection pass divides by it (the
\* core_count of the leaf 0xB / 0x1F topology paths, the attached_core_count
\* of both cache decoders): no pass ends in a division by zero.
C23_NoDivisionByZero ==
  last.op = "cpu_specs_init" => last.fault = "none"


(***************************************************************************)
(* The cache enumeration of one cpu_specs_init() call, one loop step at a  *)
(* time, from the moment the vendor's cache decoder is called: the common  *)
(* and topology decoders of the call have run.  The thread's locals are    *)
(* subfunc and cpuid_out (out).  Besides the regular parts there is        *)
(* hardware that ignores the subleaf it is asked for and answers the cache *)
(* leaf with the descriptor of subleaf 0 every time.  subfunc is kept      *)
(* within Subleaves, the subleaves the answer tables hold: the regular     *)
(* parts end their enumeration before the last one, and the hardware that  *)
(* ignores the subleaf answers every further one alike.  A thread that is  *)
(* running keeps running (weak fairness).                                  *)
(***************************************************************************)
\* the leaf the vendor's cache decoder enumerates
EnumLeaf(m) ==
  IF Answer(m, 0, 0)[ECX] = CPU_MANUFACTURER_AMD THEN X80000000 + 29 ELSE 4

\* the cache decoder of the pass on m enters its enumeration loop
Enumerates(m) ==
  /\ HasVendorPipeline(m)
  /\ IF Answer(m, 0, 0)[ECX] = CPU_MANUFACTURER_AMD
     THEN UGe(MaxExtendedLeaf(m), X80000000 + 29) /\ TopologyExtensions(m)
     ELSE UGe(MaxStandardLeaf(m), 4)

\* hardware that answers the cache leaf without looking at the subleaf
IgnoresSubleaf(m) ==
  [m EXCEPT !.prof = "S",
            !.regs = [q \in DOMAIN m.regs |->
                        IF q[1] = EnumLeaf(m) THEN m.regs[<<q[1], 0>>] ELSE m.regs[q]]]

EnumMachines ==
  {m \in RaceMachines : Enumerates(m)}
    \cup {IgnoresSubleaf(m) : m \in {k \in RaceMachines : Enumerates(k)}}

\* cpu_specs_init() on the initial profile up to the call of the cache decoder
EnumTopology(target, m) ==
  IF Answer(m, 0, 0)[ECX] = CPU_MANUFACTURER_AMD
  THEN cpu_specs_amd_get_cores_info(
         cpu_specs_get_common_instructions(
           NewCall(cpu_specs_initializer(target), Level(0, 0), 514), read_cpuid_ctx(m), m),
         read_cpuid_ctx(m), m)
  ELSE cpu_specs_intel_get_cores_info(
         cpu_specs_get_common_instructions(
           NewCall(cpu_specs_initializer(target), Level(0, 0), 514), read_cpuid_ctx(m), m),
         read_cpuid_ctx(m), m)

EnumInit ==
  /\ isa \in {"x64", "x86"}
  /\ hw \in {m \in Machines : ~m.avail}
  /\ eflags = 514
  /\ below = Level(0, 0)
  /\ cpu_identity = cpu_identity_initial
  /\ last = [op |-> "none"]
  /\ streak = 0
  /\ calls = 0
  /\ changes = 0
  /\ \E m \in EnumMachines :
       /\ threads = [pc |-> <<"topology">>, hw |-> <<m>>, subfunc |-> <<0>>,
                     out |-> <<Zeros>>, overlap |-> FALSE]
       /\ cpu_specs = EnumTopology(isa, m).specs

\* the thread has taken one more step of its call
EnumStep(x, subfunc, out, pc) ==
  /\ cpu_specs' = x.specs
  /\ below' = x.below
  /\ threads' = [threads EXCEPT !.pc[1] = IF x.fault # "none" THEN "fault" ELSE pc,
                                !.subfunc[1] = subfunc, !.out[1] = out]
  /\ UNCHANGED <<isa, hw, eflags, cpu_identity, last, streak, calls, changes>>

\* the first query of the enumeration, which sets cache_line_size
EnumEnter ==
  /\ threads.pc[1] = "topology"
  /\ \E out \in {Answer(threads.hw[1], EnumLeaf(threads.hw[1]), 0)} :
       EnumStep([NewCall(cpu_specs, below, 514) EXCEPT
                   !.specs.cache_line_size = And(out[EBX], 127) + 1],
                0, out, IF EnumLeaf(threads.hw[1]) = 4 THEN "test" ELSE "body")

\* the body of the loop: the descriptor in cpuid_out, subfunc++, the next query
EnumBody ==
  /\ threads.pc[1] = "body"
  /\ \E m \in {threads.hw[1]}, out \in {threads.out[1]},
        subfunc \in {IF threads.subfunc[1] + 1 \in Subleaves
                     THEN threads.subfunc[1] + 1 ELSE threads.subfunc[1]} :
       \E x \in { IF And(out[EAX], 1) = 0 THEN NewCall(cpu_specs, below, 514)
                  ELSE IF EnumLeaf(m) = 4
                  THEN intel_cache_descriptor(NewCall(cpu_specs, below, 514), out)
                  ELSE amd_cache_descriptor(NewCall(cpu_specs, below, 514), out) } :
         EnumStep(x, subfunc, Answer(m, EnumLeaf(m), subfunc), "test")

\* the test of the loop: (cpuid_out[EAX] & 0xF) != 0
EnumTest ==
  /\ threads.pc[1] = "test"
  /\ EnumStep(NewCall(cpu_specs, below, 514), threads.subfunc[1], threads.out[1],
              IF And(threads.out[1][EAX], 15) # 0 THEN "body" ELSE "exit")

\* the vendor instruction decoder and the return of cpu_specs_init()
EnumReturn ==
  /\ threads.pc[1] = "exit"
  /\ \E m \in {threads.hw[1]} :
       \E x \in { IF EnumLeaf(m) = 4
                  THEN cpu_specs_intel_get_instructions(
                         NewCall(cpu_specs, below, 514), read_cpuid_ctx(m), m)
                  ELSE cpu_specs_amd_get_instructions(
                         NewCall(cpu_specs, below, 514), read_cpuid_ctx(m), m) } :
         EnumStep(x, threads.subfunc[1], threads.out[1], "returned")

EnumNext == EnumEnter \/ EnumBody \/ EnumTest \/ EnumReturn

EnumSpec == EnumInit /\ [][EnumNext]_vars /\ WF_vars(EnumNext)

\* C24: every call of cpu_specs_init() eventually returns, for any hardware
\* answers: the cache enumerations stop at the first subleaf whose validity
\* field (EAX & 0xF) reads zero.
C24_Termination == <>(threads.pc[1] = "returned")

====
